---- MODULE Spec2Model ----
(***************************************************************************)
(* Model of the 6502 CPU core of nes_rust (src/src/cpu.rs).                *)
(*                                                                         *)
(* A CPU value is a record with the fields of struct CPU plus `panic`,     *)
(* the message of the Rust panic that ended execution ("" when none).      *)
(* memory is kept by its non-zero cells: an address outside DOMAIN memory  *)
(* holds 0 (the array is zero-initialised by CPU::new).  Indexing at or    *)
(* beyond MemLen is the Rust index-out-of-bounds panic.                    *)
(***************************************************************************)
EXTENDS Integers, Sequences, FiniteSets, TLC

VARIABLES register_a, register_x, register_y, status, program_counter,
          stack_pointer, memory,
          panic,            \* panic message, "" while the process is alive
          phase,            \* "idle": host has control, "running": inside run()
          overflow_checks,  \* build profile: TRUE = debug (overflow panics)
          last_op,          \* ghost: the operation that produced this state
          last_arg,         \* ghost: index of the program passed to load
          pre,              \* ghost: the CPU record before that operation
          writes, loads, runs  \* ghost: call counters capped by the bounds

cpuvars == <<register_a, register_x, register_y, status, program_counter,
             stack_pointer, memory, panic>>
vars == <<register_a, register_x, register_y, status, program_counter,
          stack_pointer, memory, panic, phase, overflow_checks,
          last_op, last_arg, pre, writes, loads, runs>>

(* ------------------------------ bounds --------------------------------- *)
MaxWrites == 1
MaxLoads == 1
MaxRuns == 2

(* ----------------------------- constants ------------------------------- *)
CARRY == 1
ZERO == 2
INTERRUPT_DISABLE == 4
DECIMAL_MODE == 8
BREAK == 16
BREAK2 == 32
OVERFLOW == 64
NEGATIVE == 128

STACK == 256
STACK_RESET == 253
MemLen == 65535
ResetStatus == 36
ResetVector == 65532
ProgramOrigin == 32768

U8 == 256
U16 == 65536

NoPanic == ""
IndexPanic == "index out of bounds"
SlicePanic == "range end index out of range for slice"
AddOverflowPanic == "attempt to add with overflow"
NotRecognizedPanic == "OpCode is not recognized"
TodoPanic == "not yet implemented"
ModePanic == "mode is not supported"

(* --------------------------- bit arithmetic ---------------------------- *)
Bit(v, k) == (v \div (2 ^ k)) % 2

FromBits(f) == f[0] + 2 * f[1] + 4 * f[2] + 8 * f[3]
               + 16 * f[4] + 32 * f[5] + 64 * f[6] + 128 * f[7]

BitAnd(a, b) == FromBits([k \in 0..7 |-> Bit(a, k) * Bit(b, k)])

BitOr(a, b) == FromBits([k \in 0..7 |-> IF Bit(a, k) + Bit(b, k) > 0 THEN 1 ELSE 0])

BitXor(a, b) == FromBits([k \in 0..7 |-> (Bit(a, k) + Bit(b, k)) % 2])

BitNot(a) == 255 - a

(* bitflags: CpuFlags::contains and CpuFlags::set for a single-bit flag *)
contains(st, flag) == (st \div flag) % 2 = 1

set(st, flag, value) ==
    IF value = contains(st, flag) THEN st
    ELSE IF value THEN st + flag ELSE st - flag

(* ------------------------------- memory -------------------------------- *)
InBounds(addr) == addr >= 0 /\ addr < MemLen

Panic(c, msg) == [c EXCEPT !.panic = msg]

(* an operation that follows c only when c has not panicked *)
Alive(c) == c.panic = NoPanic

Cell(mem, addr) == IF addr \in DOMAIN mem THEN mem[addr] ELSE 0

Store(mem, addr, data) ==
    IF data = 0
    THEN [a \in (DOMAIN mem) \ {addr} |-> mem[a]]
    ELSE [a \in (DOMAIN mem) \cup {addr} |-> IF a = addr THEN data ELSE mem[a]]

mem_read(c, addr) == Cell(c.memory, addr)

mem_write(c, addr, data) ==
    IF ~Alive(c) THEN c
    ELSE IF InBounds(addr)
    THEN [c EXCEPT !.memory = Store(c.memory, addr, data)]
    ELSE Panic(c, IndexPanic)

(* pos + 1 on u16: panics in a checked build when it overflows, else wraps *)
Succ16Panics(pos) == pos + 1 >= U16 /\ overflow_checks

Succ16(pos) == (pos + 1) % U16

(* the panic mem_read_u16(pos) raises, NoPanic when both reads succeed *)
mem_read_u16_panic(pos) ==
    IF ~InBounds(pos) THEN IndexPanic
    ELSE IF Succ16Panics(pos) THEN AddOverflowPanic
    ELSE IF ~InBounds(Succ16(pos)) THEN IndexPanic
    ELSE NoPanic

mem_read_u16(c, pos) == mem_read(c, Succ16(pos)) * 256 + mem_read(c, pos)

(* the second write of mem_write_u16, on the CPU c1 left by the first *)
mem_write_hi(c1, pos, hi) ==
    IF ~Alive(c1) THEN c1
    ELSE IF Succ16Panics(pos) THEN Panic(c1, AddOverflowPanic)
    ELSE mem_write(c1, Succ16(pos), hi)


(* mutant: the word is written big-endian *)
mem_write_u16_swapped(c, pos, data) ==
    mem_write_hi(mem_write(c, pos, data \div 256), pos, data % 256)

mem_write_u16(c, pos, data) ==
    mem_write_hi(mem_write(c, pos, data % 256), pos, data \div 256)

(* --------------------------- construction ------------------------------ *)
new == [register_a |-> 0, register_x |-> 0, register_y |-> 0,
        stack_pointer |-> STACK_RESET,
        status |-> ResetStatus,
        program_counter |-> 0,
        memory |-> <<>>,
        panic |-> NoPanic]


(* mutant: Zero is set on a zero result but never cleared *)
update_flags_sticky_zero(c, result) ==
    [c EXCEPT !.status = set(IF result = 0 THEN set(c.status, ZERO, TRUE) ELSE c.status,
                             NEGATIVE, BitAnd(result, 128) # 0)]

(* ---------------------------- flag helpers ----------------------------- *)
update_zero_and_negative_falgs(c, result) ==
    [c EXCEPT !.status = set(set(c.status, ZERO, result = 0),
                             NEGATIVE, BitAnd(result, 128) # 0)]

(* register = value; update_zero_and_negative_falgs(register) *)
put_a(c, value) == update_zero_and_negative_falgs([c EXCEPT !.register_a = value], value)

put_x(c, value) == update_zero_and_negative_falgs([c EXCEPT !.register_x = value], value)

put_y(c, value) == update_zero_and_negative_falgs([c EXCEPT !.register_y = value], value)

with_flag(c, flag, value) == [c EXCEPT !.status = set(c.status, flag, value)]

(* ----------------------- addressing-mode resolver ---------------------- *)
(* the result of get_operand_address: the address, or the panic it raised  *)
Resolve(msg, addr) ==
    IF msg # NoPanic THEN [addr |-> 0, panic |-> msg]
    ELSE [addr |-> addr, panic |-> NoPanic]

IndexPanicAt(addr) == IF InBounds(addr) THEN NoPanic ELSE IndexPanic


(* mutant: the 8-bit sum is widened instead of wrapped *)
widening_add8(a, b) == a + b

wrapping_add8(a, b) == (a + b) % U8

wrapping_add16(a, b) == (a + b) % U16


(* mutant: the high byte is read at ptr + 1 without the 8-bit wrap *)
ZeroPagePointer_unwrapped(c, ptr) ==
    mem_read(c, ptr + 1) * 256 + mem_read(c, ptr)

(* the two reads of a zero-page pointer: lo at ptr, hi at ptr.wrapping_add(1) *)
ZeroPagePointer(c, ptr) ==
    mem_read(c, wrapping_add8(ptr, 1)) * 256 + mem_read(c, ptr)

get_operand_address(c, mode) ==
    CASE mode = "Immediate" -> Resolve(NoPanic, c.program_counter)
      [] mode = "ZeroPage" ->
            Resolve(IndexPanicAt(c.program_counter), mem_read(c, c.program_counter))
      [] mode = "Absolute" ->
            Resolve(mem_read_u16_panic(c.program_counter),
                    mem_read_u16(c, c.program_counter))
      [] mode = "ZeroPage_X" ->
            Resolve(IndexPanicAt(c.program_counter),
                    wrapping_add8(mem_read(c, c.program_counter), c.register_x))
      [] mode = "ZeroPage_Y" ->
            Resolve(IndexPanicAt(c.program_counter),
                    wrapping_add8(mem_read(c, c.program_counter), c.register_y))
      [] mode = "Absolute_X" ->
            Resolve(mem_read_u16_panic(c.program_counter),
                    wrapping_add16(mem_read_u16(c, c.program_counter), c.register_x))
      [] mode = "Absolute_Y" ->
            Resolve(mem_read_u16_panic(c.program_counter),
                    wrapping_add16(mem_read_u16(c, c.program_counter), c.register_y))
      [] mode = "Indirect_X" ->
            Resolve(IndexPanicAt(c.program_counter),
                    ZeroPagePointer(c, wrapping_add8(mem_read(c, c.program_counter),
                                                     c.register_x)))
      [] mode = "Indirect_Y" ->
            Resolve(IndexPanicAt(c.program_counter),
                    ZeroPagePointer(c, wrapping_add8(mem_read(c, c.program_counter),
                                                     c.register_y)))
      [] OTHER -> Resolve(ModePanic, 0)

(* get_operand_address followed by the bounds check of mem_read(addr) *)
ReadChecked(r) ==
    IF r.panic = NoPanic /\ ~InBounds(r.addr) THEN Resolve(IndexPanic, 0) ELSE r

operand(c, mode) == ReadChecked(get_operand_address(c, mode))

(* ---------------------------- instructions ----------------------------- *)
(* each instruction f(c, mode) resolves its operand once and hands the     *)
(* resolved address r to f_at(c, r)                                        *)
lda_at(c, r) ==
    IF r.panic # NoPanic THEN Panic(c, r.panic) ELSE put_a(c, mem_read(c, r.addr))

lda(c, mode) == lda_at(c, operand(c, mode))

ldx_at(c, r) ==
    IF r.panic # NoPanic THEN Panic(c, r.panic) ELSE put_x(c, mem_read(c, r.addr))

ldx(c, mode) == ldx_at(c, operand(c, mode))

ldy_at(c, r) ==
    IF r.panic # NoPanic THEN Panic(c, r.panic) ELSE put_y(c, mem_read(c, r.addr))

ldy(c, mode) == ldy_at(c, operand(c, mode))


(* mutant: a store updates Zero and Negative from the stored value *)
store_at_flagging(c, r, value) ==
    IF r.panic # NoPanic THEN Panic(c, r.panic)
    ELSE update_zero_and_negative_falgs(mem_write(c, r.addr, value), value)

store_at(c, r, value) ==
    IF r.panic # NoPanic THEN Panic(c, r.panic) ELSE mem_write(c, r.addr, value)

sta(c, mode) == store_at(c, get_operand_address(c, mode), c.register_a)

stx(c, mode) == store_at(c, get_operand_address(c, mode), c.register_x)

sty(c, mode) == store_at(c, get_operand_address(c, mode), c.register_y)

tax(c) == put_x(c, c.register_a)

txa(c) == put_a(c, c.register_x)

tay(c) == put_y(c, c.register_a)

tya(c) == put_a(c, c.register_y)

(* mem_write(addr, value); update_zero_and_negative_falgs(flagged) *)
flag_if_alive(c, flagged) ==
    IF Alive(c) THEN update_zero_and_negative_falgs(c, flagged) ELSE c

write_and_flag(c, addr, value, flagged) ==
    flag_if_alive(mem_write(c, addr, value), flagged)

inc_at(c, r) ==
    IF r.panic # NoPanic THEN Panic(c, r.panic)
    ELSE write_and_flag(c, r.addr, wrapping_add8(mem_read(c, r.addr), 1),
                        wrapping_add8(mem_read(c, r.addr), 1))

inc(c, mode) == inc_at(c, operand(c, mode))


(* mutant: the incremented value is committed to register_x *)
inx_committing(c) == put_x(c, wrapping_add8(c.register_x, 1))

inx(c) == update_zero_and_negative_falgs(c, wrapping_add8(c.register_x, 1))

iny(c) == update_zero_and_negative_falgs(c, wrapping_add8(c.register_y, 1))

and_at(c, r) ==
    IF r.panic # NoPanic THEN Panic(c, r.panic)
    ELSE put_a(c, BitAnd(c.register_a, mem_read(c, r.addr)))

and(c, mode) == and_at(c, operand(c, mode))

ora_at(c, r) ==
    IF r.panic # NoPanic THEN Panic(c, r.panic)
    ELSE put_a(c, BitOr(c.register_a, mem_read(c, r.addr)))

ora(c, mode) == ora_at(c, operand(c, mode))

eor_at(c, r) ==
    IF r.panic # NoPanic THEN Panic(c, r.panic)
    ELSE put_a(c, BitXor(c.register_a, mem_read(c, r.addr)))

eor(c, mode) == eor_at(c, operand(c, mode))


(* mutant: the bitwise NOT is lost, so operands of different sign qualify *)
is_same_sign_unnegated(a, data) == Bit(BitXor(a, data), 7) = 1

(* the overflow test of add_to_register_a on the 9-bit sum *)
is_same_sign(a, data) == Bit(BitNot(BitXor(a, data)), 7) = 1

is_wrong_result(sum) == (Bit(sum, 7) = 1) # (sum > 255)

add_flags(c, data, sum) ==
    with_flag(with_flag(c, CARRY, sum > 255),
              OVERFLOW, is_same_sign(c.register_a, data) /\ is_wrong_result(sum))

(* add_to_register_a followed by register_a = result and the flag update *)
add_to_register_a(c, data) ==
    [cpu |-> add_flags(c, data, c.register_a + data
                                + (IF contains(c.status, CARRY) THEN 1 ELSE 0)),
     result |-> (c.register_a + data
                 + (IF contains(c.status, CARRY) THEN 1 ELSE 0)) % U8]

put_sum(r) == put_a(r.cpu, r.result)

adc_at(c, r) ==
    IF r.panic # NoPanic THEN Panic(c, r.panic)
    ELSE put_sum(add_to_register_a(c, mem_read(c, r.addr)))

adc(c, mode) == adc_at(c, operand(c, mode))

(* !value + 1 on u8: overflows exactly when !value = 0xff, i.e. value = 0 *)
negate(c, inverted) ==
    IF inverted + 1 >= U8 /\ overflow_checks THEN Panic(c, AddOverflowPanic)
    ELSE put_sum(add_to_register_a(c, (inverted + 1) % U8))

sbc_at(c, r) ==
    IF r.panic # NoPanic THEN Panic(c, r.panic)
    ELSE negate(c, BitNot(mem_read(c, r.addr)))

sbc(c, mode) == sbc_at(c, operand(c, mode))

asl_accumulator(c) ==
    put_a(with_flag(c, CARRY, c.register_a * 2 > 255), (c.register_a * 2) % U8)

asl_at(c, r) ==
    IF r.panic # NoPanic THEN Panic(c, r.panic)
    ELSE write_and_flag(with_flag(c, CARRY, mem_read(c, r.addr) * 2 > 255),
                        r.addr, (mem_read(c, r.addr) * 2) % U8,
                        (mem_read(c, r.addr) * 2) % U8)

asl(c, mode) == asl_at(c, operand(c, mode))

lsr_accumulator(c) ==
    put_a(with_flag(c, CARRY, BitAnd(c.register_a, 1) = 1), c.register_a \div 2)

lsr_at(c, r) ==
    IF r.panic # NoPanic THEN Panic(c, r.panic)
    ELSE write_and_flag(with_flag(c, CARRY, BitAnd(mem_read(c, r.addr), 1) = 1),
                        r.addr, mem_read(c, r.addr) \div 2, mem_read(c, r.addr) \div 2)

lsr(c, mode) == lsr_at(c, operand(c, mode))

(* (value << 1) with the old carry or-ed into bit 0, truncated to u8 *)
rotate_left(value, old_carry) ==
    (value * 2 + (IF old_carry THEN 1 ELSE 0)) % U8

rol_accumulator(c) ==
    put_a(with_flag(c, CARRY, c.register_a * 2 > 255),
          rotate_left(c.register_a, contains(c.status, CARRY)))

(* as in the source, the shifted value is taken from register_a; the write *)
(* is the first access to addr, so the carry is already set if it panics   *)
rol_at(c, r) ==
    IF r.panic # NoPanic THEN Panic(c, r.panic)
    ELSE write_and_flag(with_flag(c, CARRY, c.register_a * 2 > 255), r.addr,
                        rotate_left(c.register_a, contains(c.status, CARRY)),
                        rotate_left(c.register_a, contains(c.status, CARRY)))

rol(c, mode) == rol_at(c, get_operand_address(c, mode))


(* mutant: the old carry is not shifted into bit 7 *)
rotate_right_without_carry(value, old_carry) == value \div 2

rotate_right(value, old_carry) ==
    IF old_carry THEN BitOr(value \div 2, 128) ELSE value \div 2

ror_accumulator(c) ==
    put_a(with_flag(c, CARRY, BitAnd(c.register_a, 1) = 1),
          rotate_right(c.register_a, contains(c.status, CARRY)))

(* as in the source, the value is not shifted before it is written back *)
ror_value(value, old_carry) == IF old_carry THEN BitOr(value, 128) ELSE value

ror_at(c, r) ==
    IF r.panic # NoPanic THEN Panic(c, r.panic)
    ELSE write_and_flag(with_flag(c, CARRY, BitAnd(mem_read(c, r.addr), 1) = 1), r.addr,
                        ror_value(mem_read(c, r.addr), contains(c.status, CARRY)),
                        ror_value(mem_read(c, r.addr), contains(c.status, CARRY)))

ror(c, mode) == ror_at(c, operand(c, mode))

(* offset as u16 zero-extends the byte *)
branch(c, condition) ==
    IF ~condition THEN c
    ELSE IF ~InBounds(c.program_counter) THEN Panic(c, IndexPanic)
    ELSE [c EXCEPT !.program_counter =
             wrapping_add16(wrapping_add16(c.program_counter, 1),
                            mem_read(c, c.program_counter))]


(* mutant: Zero is taken from the memory byte alone, not from value & A *)
bit_flags_ignoring_a(c, value) ==
    with_flag(with_flag(with_flag(c, OVERFLOW, BitAnd(value, 64) # 0),
                        NEGATIVE, BitAnd(value, 128) # 0),
              ZERO, value = 0)

bit_flags(c, value) ==
    with_flag(with_flag(with_flag(c, OVERFLOW, BitAnd(value, 64) # 0),
                        NEGATIVE, BitAnd(value, 128) # 0),
              ZERO, BitAnd(value, c.register_a) = 0)

bit_at(c, r) ==
    IF r.panic # NoPanic THEN Panic(c, r.panic) ELSE bit_flags(c, mem_read(c, r.addr))

bit(c, mode) == bit_at(c, operand(c, mode))

(* ------------------- dispatch of run(): opcode groups ------------------ *)
AdcCodes == {105, 101, 117, 109, 125, 121, 97, 113}

SbcCodes == {233, 229, 245, 237, 253, 249, 225, 241}

LdaCodes == {169, 165, 181, 173, 189, 185, 161, 177}

AndCodes == {41, 37, 53, 45, 61, 57, 33, 49}

OraCodes == {9, 5, 21, 13, 29, 25, 1, 17}

EorCodes == {73, 69, 85, 77, 93, 89, 65, 81}

StaCodes == {133, 149, 141, 157, 153, 129, 145}

LdxCodes == {162, 166, 182, 174, 190}

LdyCodes == {160, 164, 180, 172, 188}

AslCodes == {6, 22, 14, 30}

LsrCodes == {70, 86, 78, 94}

RolCodes == {38, 54, 46, 62}

RorCodes == {102, 118, 110, 126}

IncCodes == {230, 246, 238, 254}

StxCodes == {134, 150, 142}

StyCodes == {132, 148, 140}

BitCodes == {36, 44}

ASL_A == 10

LSR_A == 74

ROL_A == 42

ROR_A == 106

INX == 232

INY == 200

TAX == 170

TXA == 138

TAY == 168

TYA == 152

BCS == 176

BCC == 144

BEQ == 240

BNE == 208

BMI == 48

BPL == 16

BVS == 112

BVC == 80

NOP == 234

BRK == 0

BranchCodes == {BCS, BCC, BEQ, BNE, BMI, BPL, BVS, BVC}

ImpliedCodes == {ASL_A, LSR_A, ROL_A, ROR_A, INX, INY, TAX, TXA, TAY, TYA, NOP, BRK}

OperandCodes == AdcCodes \cup SbcCodes \cup LdaCodes \cup AndCodes \cup OraCodes
    \cup EorCodes \cup StaCodes \cup LdxCodes \cup LdyCodes \cup AslCodes \cup LsrCodes
    \cup RolCodes \cup RorCodes \cup IncCodes \cup StxCodes \cup StyCodes \cup BitCodes

DispatchedCodes == OperandCodes \cup BranchCodes \cup ImpliedCodes

(* ---------- opcode metadata table (crate::opcodes::OPCODES_MAP) --------- *)
(* entries of the table that run() does not dispatch: CMP, JMP, JSR, RTS, *)
(* PHA, PLA, CLC, SEC                                                      *)
UndispatchedTableCodes == {201, 76, 32, 96, 72, 104, 24, 56}

TableCodes == DispatchedCodes \cup UndispatchedTableCodes

ImmediateCodes == {105, 233, 169, 41, 9, 73, 162, 160}

ZeroPageCodes == {101, 229, 165, 37, 5, 69, 133, 166, 164, 6, 70, 38, 102, 230, 134, 132, 36}

ZeroPageXCodes == {117, 245, 181, 53, 21, 85, 149, 180, 22, 86, 54, 118, 246, 148}

ZeroPageYCodes == {182, 150}

AbsoluteCodes == {109, 237, 173, 45, 13, 77, 141, 174, 172, 14, 78, 46, 110, 238, 142, 140, 44}

AbsoluteXCodes == {125, 253, 189, 61, 29, 93, 157, 188, 30, 94, 62, 126, 254}

AbsoluteYCodes == {121, 249, 185, 57, 25, 89, 153, 190}

IndirectXCodes == {97, 225, 161, 33, 1, 65, 129}

IndirectYCodes == {113, 241, 177, 49, 17, 81, 145}

OpMode(code) ==
    CASE code \in ImmediateCodes -> "Immediate"
      [] code \in ZeroPageCodes -> "ZeroPage"
      [] code \in ZeroPageXCodes -> "ZeroPage_X"
      [] code \in ZeroPageYCodes -> "ZeroPage_Y"
      [] code \in AbsoluteCodes -> "Absolute"
      [] code \in AbsoluteXCodes -> "Absolute_X"
      [] code \in AbsoluteYCodes -> "Absolute_Y"
      [] code \in IndirectXCodes -> "Indirect_X"
      [] code \in IndirectYCodes -> "Indirect_Y"
      [] OTHER -> "NoneAddressing"

OpLen(code) ==
    CASE OpMode(code) \in {"Absolute", "Absolute_X", "Absolute_Y"} -> 3
      [] OpMode(code) # "NoneAddressing" -> 2
      [] code \in BranchCodes -> 2
      [] code \in {76, 32} -> 3
      [] code = 201 -> 2
      [] OTHER -> 1

(* ------------------------------ run loop ------------------------------- *)

(* mutant: an opcode without a dispatch arm is skipped like a NOP *)
todo_falls_through(c) == c

(* the arm `_ => todo!()` of the dispatch *)
todo(c) == Panic(c, TodoPanic)

Dispatch(c, code) ==
    CASE code \in AdcCodes -> adc(c, OpMode(code))
      [] code \in SbcCodes -> sbc(c, OpMode(code))
      [] code \in LdaCodes -> lda(c, OpMode(code))
      [] code \in AndCodes -> and(c, OpMode(code))
      [] code \in OraCodes -> ora(c, OpMode(code))
      [] code \in EorCodes -> eor(c, OpMode(code))
      [] code \in StaCodes -> sta(c, OpMode(code))
      [] code \in LdxCodes -> ldx(c, OpMode(code))
      [] code \in LdyCodes -> ldy(c, OpMode(code))
      [] code \in AslCodes -> asl(c, OpMode(code))
      [] code \in LsrCodes -> lsr(c, OpMode(code))
      [] code \in RolCodes -> rol(c, OpMode(code))
      [] code \in RorCodes -> ror(c, OpMode(code))
      [] code \in IncCodes -> inc(c, OpMode(code))
      [] code \in StxCodes -> stx(c, OpMode(code))
      [] code \in StyCodes -> sty(c, OpMode(code))
      [] code \in BitCodes -> bit(c, OpMode(code))
      [] code = ASL_A -> asl_accumulator(c)
      [] code = LSR_A -> lsr_accumulator(c)
      [] code = ROL_A -> rol_accumulator(c)
      [] code = ROR_A -> ror_accumulator(c)
      [] code = INX -> inx(c)
      [] code = INY -> iny(c)
      [] code = TAX -> tax(c)
      [] code = TXA -> txa(c)
      [] code = TAY -> tay(c)
      [] code = TYA -> tya(c)
      [] code = BCS -> branch(c, contains(c.status, CARRY))
      [] code = BCC -> branch(c, ~contains(c.status, CARRY))
      [] code = BEQ -> branch(c, contains(c.status, ZERO))
      [] code = BNE -> branch(c, ~contains(c.status, ZERO))
      [] code = BMI -> branch(c, contains(c.status, NEGATIVE))
      [] code = BPL -> branch(c, ~contains(c.status, NEGATIVE))
      [] code = BVS -> branch(c, contains(c.status, OVERFLOW))
      [] code = BVC -> branch(c, ~contains(c.status, OVERFLOW))
      [] code = NOP -> c
      [] OTHER -> todo(c)

(* program_counter += n on u16 *)
AdvancePC(c, n) ==
    IF c.program_counter + n >= U16 /\ overflow_checks
    THEN Panic(c, AddOverflowPanic)
    ELSE [c EXCEPT !.program_counter = (c.program_counter + n) % U16]

Continue(c) == [cpu |-> c, returned |-> FALSE]


(* mutant: the halt opcode sets the Break flag, as BRK does on the 6502 *)
Return_with_break(c) == [cpu |-> with_flag(c, BREAK, TRUE), returned |-> TRUE]

Return(c) == [cpu |-> c, returned |-> TRUE]

(* the end of an iteration: c2 is the CPU the dispatched instruction left *)
after_dispatch(c2, program_counter_state, code) ==
    IF ~Alive(c2) THEN Continue(c2)
    ELSE IF program_counter_state = c2.program_counter
    THEN Continue(AdvancePC(c2, OpLen(code) - 1))
    ELSE Continue(c2)


(* mutant: the halt opcode sets the Break flag before run returns *)
after_fetch_sets_break(c1, code) ==
    IF ~Alive(c1) THEN Continue(c1)
    ELSE IF code \notin TableCodes THEN Continue(Panic(c1, NotRecognizedPanic))
    ELSE IF code = BRK THEN Return(with_flag(c1, BREAK, TRUE))
    ELSE after_dispatch(Dispatch(c1, code), c1.program_counter, code)

(* table lookup and dispatch: c1 is the CPU after the fetch *)
after_fetch(c1, code) ==
    IF ~Alive(c1) THEN Continue(c1)
    ELSE IF code \notin TableCodes THEN Continue(Panic(c1, NotRecognizedPanic))
    ELSE IF code = BRK THEN Return(c1)
    ELSE after_dispatch(Dispatch(c1, code), c1.program_counter, code)

(* one iteration of the loop of run(): .returned is TRUE when run returns *)
run_iteration(c) ==
    IF ~InBounds(c.program_counter) THEN Continue(Panic(c, IndexPanic))
    ELSE after_fetch(AdvancePC(c, 1), mem_read(c, c.program_counter))

reset_pc(c1) ==
    IF mem_read_u16_panic(ResetVector) # NoPanic
    THEN Panic(c1, mem_read_u16_panic(ResetVector))
    ELSE [c1 EXCEPT !.program_counter = mem_read_u16(c1, ResetVector)]


(* mutant: reset leaves the status register alone *)
reset_keeps_status(c) ==
    reset_pc([c EXCEPT !.register_a = 0, !.register_x = 0, !.register_y = 0])

reset(c) ==
    reset_pc([c EXCEPT !.register_a = 0, !.register_x = 0, !.register_y = 0,
                       !.status = ResetStatus])

(* memory[start..start+len].copy_from_slice(program) on the non-zero cells *)
copy_from_slice(mem, start, program) ==
    LET kept == {a \in DOMAIN mem : a < start \/ a >= start + program.len}
        written == {start + i : i \in DOMAIN program.cell}
    IN [a \in kept \cup written |->
           IF a \in written THEN program.cell[a - start] ELSE mem[a]]

load(c, program) ==
    IF ProgramOrigin + program.len > MemLen THEN Panic(c, SlicePanic)
    ELSE mem_write_u16([c EXCEPT !.memory = copy_from_slice(c.memory, ProgramOrigin, program)],
                       ResetVector, ProgramOrigin)


(* mutant: load_and_run does not call reset *)
reset_skipped(c1) == c1

(* load_and_run up to the entry into the loop of run() *)
reset_if_alive(c1) == IF ~Alive(c1) THEN c1 ELSE reset(c1)

load_and_run(c, program) == reset_if_alive(load(c, program))

(* run() as a function: the CPU it leaves when it returns or panics, or    *)
(* the CPU after MaxSteps iterations                                       *)
MaxSteps == 6

RECURSIVE run(_, _)

run_next(r, fuel) == IF r.returned THEN r.cpu ELSE run(r.cpu, fuel - 1)

run(c, fuel) ==
    IF ~Alive(c) \/ fuel = 0 THEN c ELSE run_next(run_iteration(c), fuel)

(* ------------------------------- inputs -------------------------------- *)
(* A program (Vec<u8>) is kept like memory: its length and its non-zero    *)
(* bytes by 0-based index.                                                 *)
Vec(bytes) ==
    [len |-> Len(bytes),
     cell |-> [i \in {j \in 0..(Len(bytes) - 1) : bytes[j + 1] # 0} |-> bytes[i + 1]]]

ProgramByte(program, i) == IF i \in DOMAIN program.cell THEN program.cell[i] ELSE 0

(* an image of n bytes, all 0x00 but the last three, which are NOP *)
LongProgram(n) == [len |-> n, cell |-> [i \in (n - 3)..(n - 1) |-> NOP]]

(* programs 1..8 are loaded by the tests of cpu.rs; 9..11 exercise an     *)
(* operand byte of 0x00, an offset byte above 0x7f and a taken branch;     *)
(* 12..14 are images that reach or pass the end of memory; 15 stores to    *)
(* the last address and 16 subtracts zero                                  *)
NumPrograms == 16

Program(k) ==
    CASE k = 1 -> Vec(<<165, 16, 0>>)
      [] k = 2 -> Vec(<<162, 5, 181, 16, 0>>)
      [] k = 3 -> Vec(<<162, 5, 161, 16, 0>>)
      [] k = 4 -> Vec(<<169, 128, 105, 128, 0>>)
      [] k = 5 -> Vec(<<169, 127, 105, 127, 0>>)
      [] k = 6 -> Vec(<<169, 255, 10, 42, 0>>)
      [] k = 7 -> Vec(<<169, 255, 74, 106, 0>>)
      [] k = 8 -> Vec(<<169, 255, 36, 16, 0>>)
      [] k = 9 -> Vec(<<169, 0, 170, 0>>)
      [] k = 10 -> Vec(<<208, 254, 0>>)
      [] k = 11 -> Vec(<<169, 1, 208, 1, 0, 232, 0>>)
      [] k = 12 -> LongProgram(32765)
      [] k = 13 -> LongProgram(32767)
      [] k = 14 -> LongProgram(32768)
      [] k = 15 -> Vec(<<141, 255, 255, 0>>)
      [] k = 16 -> Vec(<<233, 0, 0>>)
      [] OTHER -> Vec(<<>>)

(* cells the host writes through the public memory field before a run *)
HostPokes == {<<16, 85>>, <<65532, 16>>}

(* --------------------------- state machine ----------------------------- *)
CPU == [register_a |-> register_a, register_x |-> register_x,
        register_y |-> register_y, stack_pointer |-> stack_pointer,
        status |-> status, program_counter |-> program_counter,
        memory |-> memory, panic |-> panic]

Becomes(c) ==
    /\ register_a' = c.register_a
    /\ register_x' = c.register_x
    /\ register_y' = c.register_y
    /\ stack_pointer' = c.stack_pointer
    /\ status' = c.status
    /\ program_counter' = c.program_counter
    /\ memory' = c.memory
    /\ panic' = c.panic

Holds(c) ==
    /\ register_a = c.register_a
    /\ register_x = c.register_x
    /\ register_y = c.register_y
    /\ stack_pointer = c.stack_pointer
    /\ status = c.status
    /\ program_counter = c.program_counter
    /\ memory = c.memory
    /\ panic = c.panic

Init ==
    /\ Holds(new)
    /\ phase = "idle"
    /\ overflow_checks \in BOOLEAN
    /\ last_op = "new"
    /\ last_arg = 0
    /\ pre = new
    /\ writes = 0
    /\ loads = 0
    /\ runs = 0

HostIdle == phase = "idle" /\ panic = NoPanic

Write(addr, data) ==
    /\ HostIdle
    /\ writes < MaxWrites
    /\ Becomes(mem_write(CPU, addr, data))
    /\ pre' = CPU
    /\ last_op' = "mem_write"
    /\ writes' = writes + 1
    /\ UNCHANGED <<phase, overflow_checks, last_arg, loads, runs>>

Load(k) ==
    /\ HostIdle
    /\ loads < MaxLoads
    /\ Becomes(load(CPU, Program(k)))
    /\ pre' = CPU
    /\ last_op' = "load"
    /\ last_arg' = k
    /\ loads' = loads + 1
    /\ UNCHANGED <<phase, overflow_checks, writes, runs>>

Reset ==
    /\ HostIdle
    /\ Becomes(reset(CPU))
    /\ pre' = CPU
    /\ last_op' = "reset"
    /\ UNCHANGED <<phase, overflow_checks, last_arg, writes, loads, runs>>

Run ==
    /\ HostIdle
    /\ runs < MaxRuns
    /\ phase' = "running"
    /\ pre' = CPU
    /\ last_op' = "run"
    /\ runs' = runs + 1
    /\ UNCHANGED <<cpuvars, overflow_checks, last_arg, writes, loads>>

(* the host calls run(): control passes to the loop unless c has panicked *)
Enter(c) ==
    /\ Becomes(c)
    /\ phase' = IF Alive(c) THEN "running" ELSE "idle"

LoadAndRun(k) ==
    /\ HostIdle
    /\ loads < MaxLoads
    /\ runs < MaxRuns
    /\ Enter(load_and_run(CPU, Program(k)))
    /\ pre' = CPU
    /\ last_op' = "load_and_run"
    /\ last_arg' = k
    /\ loads' = loads + 1
    /\ runs' = runs + 1
    /\ UNCHANGED <<overflow_checks, writes>>

StepTo(r) ==
    /\ Becomes(r.cpu)
    /\ phase' = IF r.returned \/ ~Alive(r.cpu) THEN "idle" ELSE "running"

Step ==
    /\ phase = "running"
    /\ panic = NoPanic
    /\ StepTo(run_iteration(CPU))
    /\ pre' = CPU
    /\ last_op' = "step"
    /\ UNCHANGED <<overflow_checks, last_arg, writes, loads, runs>>

Next ==
    \/ \E poke \in HostPokes : Write(poke[1], poke[2])
    \/ \E k \in 1..NumPrograms : Load(k)
    \/ Reset
    \/ Run
    \/ \E k \in 1..NumPrograms : LoadAndRun(k)
    \/ Step

Spec == Init /\ [][Next]_vars

TypeOK ==
    /\ register_a \in 0..255
    /\ register_x \in 0..255
    /\ register_y \in 0..255
    /\ status \in 0..255
    /\ stack_pointer \in 0..255
    /\ program_counter \in 0..65535
    /\ \A a \in DOMAIN memory : a \in 0..(MemLen - 1) /\ memory[a] \in 1..255
    /\ phase \in {"idle", "running"}

(* ------------- instruction-level specification (SpecExec) -------------- *)
(* The CPU is inside run() about to fetch one instruction at `origin`,     *)
(* with registers, flags and operand bytes drawn from boundary values.     *)
(* Every such state is one a host can set up with mem_write and a program  *)
(* prefix of loads, BIT and ADC.                                           *)
OperandBytes == {0, 1, 16, 127, 128, 254, 255}

HighBytes == {0, 255}

RegValues == {0, 1, 127, 128, 255}

IndexPairs == {<<0, 0>>, <<1, 2>>, <<255, 255>>, <<128, 1>>}

StatusValues == {36, 37, 230, 231}

ExecCodes == TableCodes \cup {2, 255}

TopCodes == {NOP, BNE, BEQ, TAX, 169, 173}

DataImage ==
    (0 :> 32) @@ (1 :> 48) @@ (2 :> 3) @@ (15 :> 128) @@ (16 :> 64) @@ (17 :> 2)
    @@ (18 :> 129) @@ (127 :> 255) @@ (128 :> 1) @@ (129 :> 127) @@ (254 :> 85)
    @@ (255 :> 255) @@ (256 :> 119) @@ (65533 :> 128)

Place(mem, addr, data) == IF InBounds(addr) THEN Store(mem, addr, data) ELSE mem

ExecState(origin, code, b1, b2, a, xy, st) ==
    [new EXCEPT !.register_a = a, !.register_x = xy[1], !.register_y = xy[2],
                !.status = st, !.program_counter = origin,
                !.memory = Place(Place(Place(DataImage, origin, code),
                                       origin + 1, b1), origin + 2, b2)]

Running(c) ==
    /\ Holds(c)
    /\ pre = c
    /\ phase = "running"
    /\ overflow_checks \in BOOLEAN
    /\ last_op = "run"
    /\ last_arg = 0
    /\ writes = 0
    /\ loads = 0
    /\ runs = 1

InitExec ==
    \/ \E code \in ExecCodes, b1 \in OperandBytes, a \in RegValues,
          xy \in IndexPairs, st \in StatusValues :
          \E b2 \in (IF OpLen(code) = 3 THEN HighBytes ELSE {0}) :
             Running(ExecState(ProgramOrigin, code, b1, b2, a, xy, st))
    \/ \E origin \in {65533, 65534}, code \in TopCodes, b1 \in {0, 255},
          st \in {36, 231} :
             Running(ExecState(origin, code, b1, 0, 1, <<0, 0>>, st))

NextExec == Step

SpecExec == InitExec /\ [][NextExec]_vars

(* ---------------- arithmetic specification (SpecAlu) ------------------- *)
(* ADC #M for every accumulator, operand and carry-in                      *)
InitAlu ==
    \E a \in 0..255, m \in 0..255, st \in {36, 37} :
       Running(ExecState(ProgramOrigin, 105, m, 0, a, <<0, 0>>, st))

NextAlu == Step

SpecAlu == InitAlu /\ [][NextAlu]_vars

(* ------------- accumulator shift specification (SpecShift) ------------- *)
(* ASL A, LSR A, ROL A, ROR A for every accumulator and carry-in, and the  *)
(* two shift programs of test_rol and test_ror from their reset state      *)
InitShift ==
    \/ \E code \in {ASL_A, LSR_A, ROL_A, ROR_A}, a \in 0..255, st \in StatusValues :
          Running(ExecState(ProgramOrigin, code, 0, 0, a, <<0, 0>>, st))
    \/ \E k \in {6, 7} : Running(load_and_run(new, Program(k)))

NextShift == Step

SpecShift == InitShift /\ [][NextShift]_vars

(* ---------------------- BIT specification (SpecBit) -------------------- *)
(* BIT $10 for every accumulator and every byte at 0x0010                  *)
InitBit ==
    \E a \in 0..255, m \in 0..255, st \in {36, 231} :
       Running([ExecState(ProgramOrigin, 36, 16, 0, a, <<1, 2>>, st)
                   EXCEPT !.memory = Store(@, 16, m)])

NextBit == Step

SpecBit == InitBit /\ [][NextBit]_vars

(* ------------------ reuse of a CPU object (SpecReuse) ------------------ *)
(* The host calls load_and_run on a CPU that an earlier load_and_run left  *)
(* behind, as test_adc_overflow does.                                      *)
LeftBehind(c, j) ==
    /\ Alive(c)
    /\ Holds(c)
    /\ pre = c
    /\ phase = "idle"
    /\ last_op = "run"
    /\ last_arg = j
    /\ writes = 0
    /\ loads = 0
    /\ runs = 0

InitReuse ==
    /\ overflow_checks \in BOOLEAN
    /\ \E j \in 1..NumPrograms : LeftBehind(run(load_and_run(new, Program(j)), MaxSteps), j)

NextReuse ==
    \/ \E k \in 1..NumPrograms : LoadAndRun(k)
    \/ Step

SpecReuse == InitReuse /\ [][NextReuse]_vars

(* =============================== claims ================================ *)
(* vocabulary: the last operation, seen from the state it produced         *)
Stepped == last_op = "step"

Completed == panic = NoPanic

Fetched == Cell(pre.memory, pre.program_counter)

OperandByte == Cell(pre.memory, (pre.program_counter + 1) % 65536)

FlagSet(st, mask) == (st \div mask) % 2 = 1

FlagBit(st, mask) == (st \div mask) % 2

Signed8(b) == IF b >= 128 THEN b - 256 ELSE b

SameRegisters ==
    /\ register_a = pre.register_a
    /\ register_x = pre.register_x
    /\ register_y = pre.register_y

(* the CPU as the dispatched instruction saw it, and what it resolved *)
AfterFetch == [pre EXCEPT !.program_counter = (pre.program_counter + 1) % 65536]

EffectiveAddress == get_operand_address(AfterFetch, OpMode(Fetched)).addr

ResolvedByte == Cell(pre.memory, EffectiveAddress)

(* C1: every address 0x0000..0xFFFF is a memory cell, so no fetch, operand *)
(* read, store or word access ever faults on its index.                    *)
C1_EveryAddressAccessible == panic # IndexPanic

(* C2 as stated: after an accepted load every program byte is in memory at *)
(* 0x8000 + i, the reset vector holds 0x00, 0x80, and reset() would set    *)
(* the program counter to 0x8000.  (Stated on the non-zero cells of either *)
(* side, which is the same as for every i < n.)                            *)
C2_LoadCopiesWholeProgram ==
    (last_op = "load" /\ Completed) =>
        /\ \A i \in DOMAIN Program(last_arg).cell :
               Cell(memory, 32768 + i) = Program(last_arg).cell[i]
        /\ \A a \in DOMAIN memory :
               (a >= 32768 /\ a < 32768 + Program(last_arg).len) =>
                   memory[a] = ProgramByte(Program(last_arg), a - 32768)
        /\ Cell(memory, 65532) = 0
        /\ Cell(memory, 65533) = 128
        /\ reset(CPU).program_counter = 32768

(* C2 amended: after an accepted load every program byte that lies below   *)
(* the reset vector (0x8000 + i < 0xFFFC) is in memory at 0x8000 + i, the  *)
(* vector holds 0x00, 0x80, and reset() would set the program counter to   *)
(* 0x8000.                                                                 *)
C2_LoadCopiesBelowVector ==
    (last_op = "load" /\ Completed) =>
        /\ \A i \in DOMAIN Program(last_arg).cell :
               (32768 + i < 65532) =>
                   Cell(memory, 32768 + i) = Program(last_arg).cell[i]
        /\ \A a \in DOMAIN memory :
               (a >= 32768 /\ a < 32768 + Program(last_arg).len /\ a < 65532) =>
                   memory[a] = ProgramByte(Program(last_arg), a - 32768)
        /\ Cell(memory, 65532) = 0
        /\ Cell(memory, 65533) = 128
        /\ reset(CPU).program_counter = 32768

(* C2 witness: load accepted an image that reaches over the reset vector *)
C2_Witness ==
    /\ last_op = "load"
    /\ Completed
    /\ Program(last_arg).len > 65532 - 32768
    /\ Cell(memory, 65531) = 234

(* C3: reset() zeroes A, X, Y, sets status to 0b00100100 and the program   *)
(* counter to the little-endian word at 0xFFFC, and leaves memory and the  *)
(* stack pointer as they were.                                             *)
C3_Reset ==
    (last_op = "reset") =>
        /\ Completed
        /\ register_a = 0 /\ register_x = 0 /\ register_y = 0
        /\ status = 36
        /\ program_counter = Cell(pre.memory, 65532) + 256 * Cell(pre.memory, 65533)
        /\ memory = pre.memory
        /\ stack_pointer = pre.stack_pointer

(* C3 witness: a reset of a CPU that a program left with a non-zero        *)
(* accumulator, changed flags and the program counter past the program     *)
C3_Witness ==
    /\ last_op = "reset"
    /\ pre.register_a # 0
    /\ pre.status # 36
    /\ pre.program_counter # program_counter
    /\ program_counter = 32768
    /\ DOMAIN memory # {}

(* C4: run returns exactly when an opcode fetch yields 0x00: then the      *)
(* program counter is the address of that byte plus one and registers,     *)
(* flags and memory are untouched by the halt; a fetch of 0x00 always      *)
(* returns, and no other step does.                                        *)
C4_HaltAtFirstBrk ==
    /\ (Stepped /\ phase = "idle" /\ Completed) =>
           /\ Fetched = 0
           /\ program_counter = pre.program_counter + 1
           /\ SameRegisters
           /\ status = pre.status
           /\ memory = pre.memory
           /\ stack_pointer = pre.stack_pointer
    /\ (Stepped /\ pre.program_counter < 65535 /\ Fetched = 0) =>
           (phase = "idle" /\ Completed)
    /\ (Stepped /\ Completed /\ Fetched # 0) => phase = "running"

(* C4 witness: LDA #0x00, TAX, BRK ran past its 0x00 operand at 0x8001 and *)
(* returned at the 0x00 opcode at 0x8003                                   *)
C4_Witness ==
    /\ Stepped /\ phase = "idle" /\ Completed
    /\ last_arg = 9
    /\ Cell(memory, 32768) = 169 /\ Cell(memory, 32769) = 0
    /\ pre.program_counter = 32771
    /\ program_counter = 32772

C5_Destination ==
    IF Fetched \in LdxCodes \cup {TAX} THEN register_x
    ELSE IF Fetched \in LdyCodes \cup {TAY} THEN register_y
    ELSE register_a

C5_Codes ==
    LdaCodes \cup LdxCodes \cup LdyCodes \cup {TAX, TXA, TAY, TYA} \cup AndCodes
    \cup OraCodes \cup EorCodes \cup AdcCodes \cup SbcCodes
    \cup {ASL_A, LSR_A, ROL_A, ROR_A}

(* C5: after LDA, LDX, LDY, TAX, TXA, TAY, TYA, AND, ORA, EOR, ADC, SBC or *)
(* an accumulator shift/rotate, Zero is set iff the destination register   *)
(* is 0 and Negative is set iff its bit 7 is 1.                            *)
C5_ZeroNegativeFollowResult ==
    (Stepped /\ Completed /\ Fetched \in C5_Codes) =>
        /\ FlagSet(status, 2) <=> (C5_Destination = 0)
        /\ FlagSet(status, 128) <=> (C5_Destination >= 128)

(* C5 witness: an ADC produced a positive non-zero sum in a state whose    *)
(* Zero and Negative flags were both set, so both had to be cleared        *)
C5_Witness ==
    /\ Stepped /\ Completed
    /\ Fetched \in AdcCodes
    /\ register_a \in 1..127
    /\ FlagSet(pre.status, 2)
    /\ FlagSet(pre.status, 128)
    /\ ~FlagSet(status, 2)
    /\ ~FlagSet(status, 128)

C6_Sum == pre.register_a + ResolvedByte + FlagBit(pre.status, 1)

(* C6: ADC leaves A' = (A + M + C) mod 256, Carry iff A + M + C > 255 and  *)
(* Overflow iff A and M have the same bit 7 and A' a different one.        *)
C6_AdcResult ==
    (Stepped /\ Completed /\ Fetched \in AdcCodes) =>
        /\ register_a = C6_Sum % 256
        /\ FlagSet(status, 1) <=> (C6_Sum > 255)
        /\ FlagSet(status, 64) <=>
               /\ (pre.register_a >= 128) <=> (ResolvedByte >= 128)
               /\ (pre.register_a >= 128) # (register_a >= 128)

(* C6 witness: 0x80 + 0x80 gave 0x00 with Carry, Zero, Overflow set and    *)
(* Negative clear                                                          *)
C6_Witness ==
    /\ Stepped /\ Completed
    /\ Fetched = 105
    /\ pre.register_a = 128 /\ OperandByte = 128 /\ ~FlagSet(pre.status, 1)
    /\ register_a = 0
    /\ FlagSet(status, 1) /\ FlagSet(status, 2) /\ FlagSet(status, 64)
    /\ ~FlagSet(status, 128)

C7_Negated == (256 - ResolvedByte) % 256

C7_Sum == pre.register_a + C7_Negated + FlagBit(pre.status, 1)

(* C7: SBC of any operand byte M, M = 0 included, completes and behaves as *)
(* ADC of N = (256 - M) mod 256.                                           *)
C7_SbcIsAdcOfNegation ==
    (Stepped /\ Fetched \in SbcCodes /\ panic # IndexPanic) =>
        /\ Completed
        /\ register_a = C7_Sum % 256
        /\ FlagSet(status, 1) <=> (C7_Sum > 255)
        /\ FlagSet(status, 64) <=>
               /\ (pre.register_a >= 128) <=> (C7_Negated >= 128)
               /\ (pre.register_a >= 128) # (register_a >= 128)

C8_ConditionHolds ==
    \/ Fetched = BCS /\ FlagSet(pre.status, 1)
    \/ Fetched = BCC /\ ~FlagSet(pre.status, 1)
    \/ Fetched = BEQ /\ FlagSet(pre.status, 2)
    \/ Fetched = BNE /\ ~FlagSet(pre.status, 2)
    \/ Fetched = BMI /\ FlagSet(pre.status, 128)
    \/ Fetched = BPL /\ ~FlagSet(pre.status, 128)
    \/ Fetched = BVS /\ FlagSet(pre.status, 64)
    \/ Fetched = BVC /\ ~FlagSet(pre.status, 64)

(* C8: a taken branch fetched at p with offset byte b continues at         *)
(* (p + 2 + s) mod 65536, s being b read as a signed 8-bit value.          *)
C8_SignedBranch ==
    (Stepped /\ Completed /\ C8_ConditionHolds) =>
        program_counter = (pre.program_counter + 2 + Signed8(OperandByte) + 65536) % 65536

(* C9: Indirect-Y resolves to (memory[b] + 256 * memory[(b + 1) mod 256]   *)
(* + Y) mod 65536: the pointer is read at b, Y is added afterwards.        *)
C9_IndirectYPostIndexed ==
    (Stepped /\ Completed /\ Fetched \in IndirectYCodes) =>
        EffectiveAddress = (Cell(pre.memory, OperandByte)
                            + 256 * Cell(pre.memory, (OperandByte + 1) % 256)
                            + pre.register_y) % 65536

C10_Index == IF Fetched \in ZeroPageYCodes THEN pre.register_y ELSE pre.register_x

C10_Address == (OperandByte + C10_Index) % 256

(* C10: ZeroPage-X and ZeroPage-Y resolve to (b + i) mod 256, an address   *)
(* of page 0; loads read that cell and stores write it, leaving the cell   *)
(* 256 above untouched.                                                    *)
C10_ZeroPageIndexedWraps ==
    (Stepped /\ Completed /\ Fetched \in ZeroPageXCodes \cup ZeroPageYCodes) =>
        /\ EffectiveAddress = C10_Address
        /\ EffectiveAddress \in 0..255
        /\ Fetched = 181 => register_a = Cell(pre.memory, C10_Address)
        /\ Fetched = 182 => register_x = Cell(pre.memory, C10_Address)
        /\ Fetched = 149 => Cell(memory, C10_Address) = pre.register_a
        /\ Fetched = 150 => Cell(memory, C10_Address) = pre.register_x
        /\ Fetched \in {149, 150} =>
               Cell(memory, 256 + C10_Address) = Cell(pre.memory, 256 + C10_Address)

(* C10 witness: LDA $FF,X with X = 1 loaded the byte at 0x0000, which      *)
(* differs from the byte at 0x0100                                         *)
C10_Witness ==
    /\ Stepped /\ Completed
    /\ Fetched = 181
    /\ OperandByte = 255 /\ pre.register_x = 1
    /\ register_a = Cell(pre.memory, 0)
    /\ Cell(pre.memory, 0) # Cell(pre.memory, 256)

C11_Pointer(q) == Cell(pre.memory, q) + 256 * Cell(pre.memory, (q + 1) % 256)

(* C11: an indirect pointer at page-zero byte q is memory[q] + 256 *       *)
(* memory[(q + 1) mod 256], so for q = 0xFF the high byte is the cell at   *)
(* 0x0000.  Indirect-X resolves to exactly the pointer at q = (b + X) mod  *)
(* 256.  Indirect-Y resolves to an address built from such a wrapped       *)
(* pointer, whether its pointer byte is b (Y added afterwards) or b + Y;   *)
(* with Y = 0 that is the pointer at b.                                    *)
C11_IndirectPointerWraps ==
    /\ (Stepped /\ Completed /\ Fetched \in IndirectXCodes) =>
           /\ EffectiveAddress = C11_Pointer((OperandByte + pre.register_x) % 256)
           /\ Fetched = 161 => register_a = Cell(pre.memory, EffectiveAddress)
    /\ (Stepped /\ Completed /\ Fetched \in IndirectYCodes) =>
           \/ EffectiveAddress = (C11_Pointer(OperandByte) + pre.register_y) % 65536
           \/ EffectiveAddress = C11_Pointer((OperandByte + pre.register_y) % 256)

(* C11 witness: LDA ($FE,X) with X = 1 read its pointer at 0xFF and 0x00,  *)
(* where the cell at 0x0100 holds a different byte than the one at 0x0000  *)
C11_Witness ==
    /\ Stepped /\ Completed
    /\ Fetched = 161
    /\ OperandByte = 254 /\ pre.register_x = 1
    /\ EffectiveAddress = Cell(pre.memory, 255) + 256 * Cell(pre.memory, 0)
    /\ Cell(pre.memory, 0) # Cell(pre.memory, 256)
    /\ register_a = Cell(pre.memory, EffectiveAddress)

C12_CarryIn == FlagBit(pre.status, 1)

C12_ShiftProgram(b2, b3) ==
    /\ Cell(pre.memory, 32768) = 169 /\ Cell(pre.memory, 32769) = 255
    /\ Cell(pre.memory, 32770) = b2 /\ Cell(pre.memory, 32771) = b3
    /\ Stepped /\ phase = "idle" /\ pre.program_counter = 32772

(* C12: ASL A gives (2A) mod 256 with Carry = bit 7 of A; LSR A gives      *)
(* A div 2 with Carry = bit 0 of A; ROL A gives (2A) mod 256 + C with      *)
(* Carry = bit 7 of A; ROR A gives A div 2 + 128 * C with Carry = bit 0 of *)
(* A.  LDA #0xFF, ASL, ROL halts with A = 0b11111101 and Carry set;        *)
(* LDA #0xFF, LSR, ROR halts with A = 0b10111111 and Carry set.            *)
C12_AccumulatorShifts ==
    /\ (Stepped /\ Fetched = ASL_A) =>
           /\ Completed
           /\ register_a = (2 * pre.register_a) % 256
           /\ FlagBit(status, 1) = pre.register_a \div 128
    /\ (Stepped /\ Fetched = LSR_A) =>
           /\ Completed
           /\ register_a = pre.register_a \div 2
           /\ FlagBit(status, 1) = pre.register_a % 2
    /\ (Stepped /\ Fetched = ROL_A) =>
           /\ Completed
           /\ register_a = ((2 * pre.register_a) % 256) + C12_CarryIn
           /\ FlagBit(status, 1) = pre.register_a \div 128
    /\ (Stepped /\ Fetched = ROR_A) =>
           /\ Completed
           /\ register_a = (pre.register_a \div 2) + 128 * C12_CarryIn
           /\ FlagBit(status, 1) = pre.register_a % 2
    /\ C12_ShiftProgram(10, 42) =>
           (Completed /\ register_a = 253 /\ FlagSet(status, 1))
    /\ C12_ShiftProgram(74, 106) =>
           (Completed /\ register_a = 191 /\ FlagSet(status, 1))

(* C12 witness: ROR A of 0x7F with the carry set by the preceding LSR gave *)
(* 0xBF with Carry set, in the program LDA #0xFF, LSR, ROR                 *)
C12_Witness ==
    /\ Stepped /\ Completed
    /\ Fetched = ROR_A
    /\ Cell(pre.memory, 32770) = 74
    /\ pre.register_a = 127 /\ FlagSet(pre.status, 1)
    /\ register_a = 191 /\ FlagSet(status, 1)

(* C13: BIT leaves A, X, Y, Carry and every memory cell unchanged and sets *)
(* Overflow = bit 6 of m, Negative = bit 7 of m, Zero iff (m AND A) = 0,   *)
(* m being the byte at the resolved address.                               *)
C13_BitTest ==
    (Stepped /\ Completed /\ Fetched \in BitCodes) =>
        /\ SameRegisters
        /\ memory = pre.memory
        /\ FlagBit(status, 1) = FlagBit(pre.status, 1)
        /\ FlagBit(status, 64) = (ResolvedByte \div 64) % 2
        /\ FlagBit(status, 128) = ResolvedByte \div 128
        /\ FlagSet(status, 2) <=>
               (\A k \in 0..7 : (ResolvedByte \div 2 ^ k) % 2 = 0
                                 \/ (pre.register_a \div 2 ^ k) % 2 = 0)

(* C13 witness: BIT of 0xC0 with A = 0x3F from a state with Zero, Negative *)
(* and Overflow clear: non-zero byte, zero conjunction, all three set      *)
C13_Witness ==
    /\ Stepped /\ Completed
    /\ Fetched = 36
    /\ ResolvedByte = 192 /\ pre.register_a = 63
    /\ pre.status = 36
    /\ status = 36 + 2 + 64 + 128
    /\ Cell(memory, 16) = 192 /\ register_a = 63

(* C14: a fetched opcode byte that is absent from the metadata table, or   *)
(* is in it without a dispatch arm, ends execution in a fatal error: run() *)
(* executes nothing further, and registers, flags, stack pointer and       *)
(* memory are as before the fetch, the program counter one past it.  No    *)
(* fatal error of any kind is followed by another instruction.             *)
C14_UnknownOpcodeIsFatal ==
    /\ (Stepped /\ InBounds(pre.program_counter) /\ Fetched \notin DispatchedCodes) =>
           /\ panic = (IF Fetched \in TableCodes THEN TodoPanic ELSE NotRecognizedPanic)
           /\ phase = "idle"
           /\ SameRegisters
           /\ status = pre.status
           /\ stack_pointer = pre.stack_pointer
           /\ memory = pre.memory
           /\ program_counter = pre.program_counter + 1
    /\ ~Completed => (phase = "idle" /\ ~ENABLED Step)

(* C14 witness: opcode 0xC9, in the table but not dispatched, stopped a    *)
(* CPU whose registers and flags were not in their reset state             *)
C14_Witness ==
    /\ Stepped
    /\ Fetched = 201
    /\ panic = TodoPanic
    /\ pre.register_a = 127 /\ pre.register_x = 1 /\ pre.status = 231
    /\ register_a = 127 /\ status = 231
    /\ program_counter = 32769

(* an instruction that was dispatched and did not die of the index fault   *)
(* of C1 or the negation overflow of C7                                    *)
C15_Executed ==
    /\ Stepped
    /\ InBounds(pre.program_counter)
    /\ Fetched \in DispatchedCodes \ {BRK}
    /\ panic # IndexPanic
    /\ ~(Fetched \in SbcCodes /\ panic = AddOverflowPanic)

(* C15: an executed instruction other than a taken branch and the halt,    *)
(* fetched at p with encoded length L, completes and leaves run() about to *)
(* fetch at p + L (mod 65536); a branch not taken changes no register,     *)
(* flag or memory cell; a taken branch continues at its target, without    *)
(* the L - 1 advance on top.                                               *)
C15_ProgramCounterSequencing ==
    /\ (C15_Executed /\ ~C8_ConditionHolds) =>
           /\ Completed
           /\ phase = "running"
           /\ program_counter = (pre.program_counter + OpLen(Fetched)) % 65536
    /\ (C15_Executed /\ Fetched \in BranchCodes /\ ~C8_ConditionHolds) =>
           /\ program_counter = (pre.program_counter + 2) % 65536
           /\ SameRegisters
           /\ status = pre.status
           /\ memory = pre.memory
    /\ (C15_Executed /\ C8_ConditionHolds) =>
           /\ Completed
           /\ program_counter = (pre.program_counter + 2 + OperandByte) % 65536
              \/ program_counter = (pre.program_counter + 2 + Signed8(OperandByte)
                                    + 65536) % 65536

(* C16: ROL on memory at effective address e leaves memory[e] = (2m) mod   *)
(* 256 + C and Carry = bit 7 of m, m being the byte stored at e before and *)
(* C the carry-in, whatever A is, and leaves A unchanged.                  *)
C16_RolRotatesMemory ==
    (Stepped /\ Completed /\ Fetched \in RolCodes) =>
        /\ Cell(memory, EffectiveAddress)
              = ((2 * ResolvedByte) % 256) + FlagBit(pre.status, 1)
        /\ FlagBit(status, 1) = ResolvedByte \div 128
        /\ register_a = pre.register_a

(* C17: ROR on memory at effective address e leaves memory[e] = m div 2 +  *)
(* 128 * C and Carry = bit 0 of m, with Zero and Negative following the    *)
(* new memory[e].                                                          *)
C17_RorRotatesMemory ==
    (Stepped /\ Completed /\ Fetched \in RorCodes) =>
        /\ Cell(memory, EffectiveAddress)
              = (ResolvedByte \div 2) + 128 * FlagBit(pre.status, 1)
        /\ FlagBit(status, 1) = ResolvedByte % 2
        /\ FlagSet(status, 2) <=> (Cell(memory, EffectiveAddress) = 0)
        /\ FlagSet(status, 128) <=> (Cell(memory, EffectiveAddress) >= 128)

C18_Register == IF Fetched = INX THEN pre.register_x ELSE pre.register_y

(* C18: INX and INY leave X, Y, A, Carry, Overflow and memory unchanged    *)
(* and set Zero and Negative from (register + 1) mod 256; after INX with   *)
(* X = 0xFF, Zero is set and X is still 0xFF.                              *)
C18_IncrementOnlyFlags ==
    (Stepped /\ Fetched \in {INX, INY} /\ InBounds(pre.program_counter)) =>
        /\ Completed
        /\ SameRegisters
        /\ memory = pre.memory
        /\ stack_pointer = pre.stack_pointer
        /\ FlagBit(status, 1) = FlagBit(pre.status, 1)
        /\ FlagBit(status, 64) = FlagBit(pre.status, 64)
        /\ FlagSet(status, 2) <=> ((C18_Register + 1) % 256 = 0)
        /\ FlagSet(status, 128) <=> ((C18_Register + 1) % 256 >= 128)

(* C18 witness: INX with X = 0xFF in a state with Zero clear set Zero and  *)
(* left X at 0xFF                                                          *)
C18_Witness ==
    /\ Stepped /\ Completed
    /\ Fetched = INX
    /\ pre.register_x = 255 /\ ~FlagSet(pre.status, 2)
    /\ register_x = 255 /\ FlagSet(status, 2) /\ ~FlagSet(status, 128)

C19_Register ==
    IF Fetched \in StaCodes THEN pre.register_a
    ELSE IF Fetched \in StxCodes THEN pre.register_x
    ELSE pre.register_y

(* C19: STA, STX and STY write the register to the resolved address and    *)
(* change nothing else: the status byte, A, X, Y, the stack pointer and    *)
(* every other memory cell are as before.                                  *)
C19_StoresOnlyWrite ==
    (Stepped /\ Completed /\ Fetched \in StaCodes \cup StxCodes \cup StyCodes) =>
        /\ Cell(memory, EffectiveAddress) = C19_Register
        /\ \A a \in (DOMAIN memory \cup DOMAIN pre.memory) \ {EffectiveAddress} :
               Cell(memory, a) = Cell(pre.memory, a)
        /\ status = pre.status
        /\ SameRegisters
        /\ stack_pointer = pre.stack_pointer

(* C19 witness: STA $10 stored A = 0 over a non-zero cell in a state whose *)
(* Zero flag was clear, and the Zero flag stayed clear                     *)
C19_Witness ==
    /\ Stepped /\ Completed
    /\ Fetched = 133
    /\ OperandByte = 16
    /\ pre.register_a = 0 /\ Cell(pre.memory, 16) # 0
    /\ ~FlagSet(pre.status, 2)
    /\ Cell(memory, 16) = 0
    /\ status = pre.status

(* register files another CPU object may hold: A, X, Y, status, PC *)
C20_Registers == {<<0, 0, 0, 36, 0>>, <<255, 1, 2, 231, 32771>>, <<128, 255, 255, 37, 65535>>}

C20_Other(c, d) ==
    [c EXCEPT !.register_a = d[1], !.register_x = d[2], !.register_y = d[3],
              !.status = d[4], !.program_counter = d[5]]

(* C20: when load_and_run(program) is entered on a CPU, any CPU with the   *)
(* same memory and stack pointer but other A, X, Y, status and PC enters   *)
(* run() in the same state, and both finish in the same state: registers,  *)
(* status, PC, memory and outcome.  That final state is the one the loop   *)
(* of run() reaches step by step.                                          *)
C20_RunIgnoresEarlierRegisters ==
    /\ (last_op = "load_and_run" /\ Completed) =>
           \A d \in C20_Registers :
               /\ load_and_run(C20_Other(pre, d), Program(last_arg)) = CPU
               /\ run(load_and_run(C20_Other(pre, d), Program(last_arg)), MaxSteps)
                     = run(CPU, MaxSteps)
    /\ (Stepped /\ phase = "running") => run(pre, MaxSteps) = run(CPU, MaxSteps)
    /\ (Stepped /\ phase = "idle") => run(pre, MaxSteps) = CPU

(* C20 witness: as in test_adc_overflow, LDA #0x7F, ADC #0x7F is entered   *)
(* on a CPU left with Carry set and finishes with A = 0xFE, not 0xFF       *)
C20_Witness ==
    /\ last_op = "load_and_run" /\ Completed
    /\ last_arg = 5
    /\ FlagSet(pre.status, 1) /\ pre.program_counter = 32773
    /\ status = 36 /\ program_counter = 32768
    /\ run(CPU, MaxSteps).register_a = 254
    /\ ~FlagSet(run(CPU, MaxSteps).status, 1)

(* C21: in every state reachable from new() through writes, load, reset    *)
(* and run, the stack pointer is 0xFD and the Interrupt-Disable, Decimal,  *)
(* Break and Break2 bits hold their reset pattern: status AND 0b00111100   *)
(* is 0b00100100.                                                          *)
C21_StackPointerAndFixedBits ==
    /\ stack_pointer = 253
    /\ (status \div 4) % 16 = 9

(* C21 witness: LDA #0x80, ADC #0x80 ran to its halt and changed Carry,    *)
(* Zero and Overflow, with the stack pointer and bits 2..5 as at reset     *)
C21_Witness ==
    /\ Stepped /\ phase = "idle" /\ Completed
    /\ last_arg = 4
    /\ Fetched = 0
    /\ status = 36 + 1 + 2 + 64
    /\ stack_pointer = 253

====
